---- MODULE Spec2Model ----
(***************************************************************************)
(* tree-grepper: a structural code search.  The model follows one run of   *)
(* try_main: Invocation::from_args (language registry, query combiner),    *)
(* find_files (parallel walk with a fan-in channel), the extraction map    *)
(* stage of do_query, the optional sort and the output formatter.          *)
(*                                                                         *)
(* The query engine (tree-sitter), the walker (ignore), the data-parallel  *)
(* pool (rayon) and the channel (crossbeam) are libraries: they are        *)
(* modelled by the behaviour the code relies on.  A query text is a        *)
(* sequence of lexical items as the engine's lexer sees them; strings the  *)
(* code inspects character by character are sequences of characters.      *)
(***************************************************************************)
EXTENDS Integers, Sequences, FiniteSets, TLC

\* ------------------------------------------------------------------ bounds
\* the most -q pairs of an invocation drawn by InitArgs
MaxPairs == 2
\* the most directory entries the walked tree yields
MaxEntries == 2
\* the sizes of the thread pools (the walker's and the map stage's) that are tried
PoolSizes == {1, 2}

\* --------------------------------------------------------------- helpers
Range(s) == {s[i] : i \in 1..Len(s)}

RECURSIVE Flatten(_)
Flatten(ss) == IF ss = <<>> THEN <<>> ELSE Head(ss) \o Flatten(Tail(ss))

IndexOf(s, x) == CHOOSE i \in 1..Len(s) : s[i] = x /\ \A j \in 1..(i-1) : s[j] # x

SeqsUpTo(S, n) == UNION {[1..k -> S] : k \in 1..n}

\* ------------------------------------------------------ language registry
\* include_langs!(Cpp "cpp", Rust "rust", C "c", Python "py", JavaScript "js",
\*                Lua "lua", Markdown "md", Go "go")
LanguageAll == <<"Cpp", "Rust", "C", "Python", "JavaScript", "Lua", "Markdown", "Go">>

Languages == Range(LanguageAll)

\* $nametb: the literal of each variant
name_for_types_builder(l) ==
    CASE l = "Cpp" -> "cpp"
      [] l = "Rust" -> "rust"
      [] l = "C" -> "c"
      [] l = "Python" -> "py"
      [] l = "JavaScript" -> "js"
      [] l = "Lua" -> "lua"
      [] l = "Markdown" -> "md"
      [] l = "Go" -> "go"

\* Display: stringify!([<$lang:lower>]), the variant's identifier in lower case
to_string(l) ==
    CASE l = "Cpp" -> "cpp"
      [] l = "Rust" -> "rust"
      [] l = "C" -> "c"
      [] l = "Python" -> "python"
      [] l = "JavaScript" -> "javascript"
      [] l = "Lua" -> "lua"
      [] l = "Markdown" -> "markdown"
      [] l = "Go" -> "go"

NoLang == "-"

\* FromStr: match s { $($nametb => Ok(Language::$lang),)+ _ => bail!(...) }
\* the error carries the name and the list Language::all().map(to_string)
from_str(s) ==
    IF \E i \in 1..Len(LanguageAll) : name_for_types_builder(LanguageAll[i]) = s
    THEN [ok |-> TRUE,
          lang |-> LanguageAll[CHOOSE i \in 1..Len(LanguageAll) :
                        /\ name_for_types_builder(LanguageAll[i]) = s
                        /\ \A j \in 1..(i-1) : name_for_types_builder(LanguageAll[j]) # s],
          unknown |-> "", try_one_of |-> <<>>]
    ELSE [ok |-> FALSE, lang |-> NoLang,
          unknown |-> s,
          try_one_of |-> [i \in 1..Len(LanguageAll) |-> to_string(LanguageAll[i])]]

\* ------------------------------------------------------------ query texts
\* Lexical items of a query text.  A node item is a parenthesised pattern
\* "(kind)", or the grouped pattern "((kind) (#p?))" that carries one general
\* predicate; a cap item is "@name"; a comment item is ";..." and runs to the
\* end of the line (a command-line query is one line).
NodeTok(k) == [t |-> "node", kind |-> k, name |-> <<>>, pred |-> FALSE]
PredTok(k) == [t |-> "node", kind |-> k, name |-> <<>>, pred |-> TRUE]
CapTok(n) == [t |-> "cap", kind |-> <<>>, name |-> n, pred |-> FALSE]
CommentTok == [t |-> "comment", kind |-> <<>>, name |-> <<>>, pred |-> FALSE]

KindA == <<"a">>
KindB == <<"b">>
KindBad == <<"z", "z">>
CapX == <<"x">>
CapY == <<"y">>
CapHelper == <<"_", "h">>
CapQuery == <<"q", "u", "e", "r", "y">>

\* the node kinds a grammar knows (the same two in every compiled-in grammar)
NodeKinds(lang) == {KindA, KindB}

\* the width of an item in characters
TokLen(tok) ==
    CASE tok.t = "node" -> IF tok.pred THEN Len(tok.kind) + 10 ELSE Len(tok.kind) + 2
      [] tok.t = "cap" -> Len(tok.name) + 1
      [] tok.t = "comment" -> 2

NoQueryError == [kind |-> "none", row |-> 0, column |-> 0, message |-> <<>>]

\* tree_sitter::Query::new: the compiled patterns, each with the capture ids on
\* its node and its general predicates, and the capture names in order of first
\* appearance; or the first error with its 0-indexed position.
RECURSIVE QueryNew(_, _, _)
QueryNew(lang, toks, acc) ==
    IF toks = <<>> THEN acc
    ELSE LET tok == Head(toks) IN
      CASE tok.t = "comment" -> acc
        [] tok.t = "node" ->
             IF tok.kind \notin NodeKinds(lang)
             THEN [acc EXCEPT !.err = [kind |-> "NodeType", row |-> 0,
                                       column |-> acc.off + (IF tok.pred THEN 2 ELSE 1),
                                       message |-> tok.kind]]
             ELSE QueryNew(lang, Tail(toks),
                    [acc EXCEPT !.patterns = Append(@, [kind |-> tok.kind, captures |-> <<>>,
                                     preds |-> IF tok.pred THEN <<"p?">> ELSE <<>>]),
                                !.off = @ + TokLen(tok)])
        [] tok.t = "cap" ->
             IF acc.patterns = <<>>
             THEN [acc EXCEPT !.err = [kind |-> "Syntax", row |-> 0, column |-> acc.off,
                                       message |-> tok.name]]
             ELSE LET names == IF tok.name \in Range(acc.names) THEN acc.names
                               ELSE Append(acc.names, tok.name)
                      n == Len(acc.patterns)
                  IN QueryNew(lang, Tail(toks),
                       [acc EXCEPT !.names = names,
                                   !.patterns[n].captures = Append(@, IndexOf(names, tok.name)),
                                   !.off = @ + TokLen(tok)])

\* QueryError's Display: "Query error at {row+1}:{column+1}. Invalid node type {message}"
QueryErrorDisplay(e) ==
    [what |-> "Query error", row |-> e.row + 1, column |-> e.column + 1,
     kind |-> e.kind, message |-> e.message]

\* Language::parse_query: Query::new(...).map_err(|err| anyhow!("{}", err))
parse_query(lang, raw) ==
    LET q == QueryNew(lang, raw, [patterns |-> <<>>, names |-> <<>>, off |-> 0,
                                  err |-> NoQueryError])
    IN IF q.err.kind = "none"
       THEN [ok |-> TRUE, patterns |-> q.patterns, capture_names |-> q.names,
             err |-> QueryErrorDisplay(NoQueryError)]
       ELSE [ok |-> FALSE, patterns |-> <<>>, capture_names |-> <<>>,
             err |-> QueryErrorDisplay(q.err)]

\* --------------------------------------------------------------- extractor
\* Query::disable_capture: the capture no longer appears in any match; the
\* pattern keeps matching and the capture names keep their indices.
disable_capture(query, name) ==
    [query EXCEPT !.patterns =
        [i \in 1..Len(query.patterns) |->
            [query.patterns[i] EXCEPT !.captures =
                SelectSeq(@, LAMBDA c : query.capture_names[c] # name)]]]

starts_with_underscore(name) == name # <<>> /\ name[1] = "_"

RECURSIVE DisableHelpers(_, _)
DisableHelpers(query, names) ==
    IF names = <<>> THEN query
    ELSE DisableHelpers(IF starts_with_underscore(Head(names))
                        THEN disable_capture(query, Head(names)) ELSE query,
                        Tail(names))

\* Extractor::new without the loop that disables the '_' captures
ExtractorNew_KeepHelpers(language, query) ==
    [language |-> language,
     query |-> [patterns |-> query.patterns, capture_names |-> query.capture_names],
     captures |-> query.capture_names]

\* Extractor::new: copies the capture names, then disables every capture whose
\* name starts with '_'
ExtractorNew(language, query) ==
    [language |-> language,
     query |-> DisableHelpers([patterns |-> query.patterns,
                               capture_names |-> query.capture_names],
                              query.capture_names),
     captures |-> query.capture_names]

\* ---------------------------------------------------------- query combiner
EmptyMap == [l \in {} |-> <<>>]

\* cli.rs: query_out, with "@query" pushed when the query parsed in isolation
\* declares no capture
QueryOut(raw_query, temp_query) ==
    IF temp_query.capture_names = <<>> THEN Append(raw_query, CapTok(CapQuery))
    ELSE raw_query

\* the new query put in front of the existing text
MergeQuery_Prepends(qs, lang, query_out) ==
    IF lang \in DOMAIN qs THEN [qs EXCEPT ![lang] = query_out \o @]
    ELSE [l \in DOMAIN qs \cup {lang} |-> IF l = lang THEN query_out ELSE qs[l]]

\* cli.rs: existing.push_str(&query_out), or insert
MergeQuery(qs, lang, query_out) ==
    IF lang \in DOMAIN qs THEN [qs EXCEPT ![lang] = @ \o query_out]
    ELSE [l \in DOMAIN qs \cup {lang} |-> IF l = lang THEN query_out ELSE qs[l]]

\* the scan for general predicates left out
UnknownPredicate_None(query) == <<>>

\* cli.rs: the first general predicate of the composite query, pattern by pattern
UnknownPredicate(query) ==
    LET bad == {i \in 1..Len(query.patterns) : query.patterns[i].preds # <<>>}
    IN IF bad = {} THEN <<>>
       ELSE LET i == CHOOSE i \in bad : \A j \in bad : i <= j
            IN <<query.patterns[i].preds[1]>>

\* ------------------------------------------------------------- extraction
\* QueryCursor::matches over the tree of a source: node by node, pattern by
\* pattern; a match carries the (enabled) captures of its pattern
Matches(query, nodes) ==
    Flatten([n \in 1..Len(nodes) |->
        Flatten([p \in 1..Len(query.patterns) |->
            IF query.patterns[p].kind = nodes[n].kind
            THEN << [pattern |-> p,
                     captures |-> [c \in 1..Len(query.patterns[p].captures) |->
                                     [index |-> query.patterns[p].captures[c],
                                      node |-> nodes[n]]]] >>
            ELSE <<>>])])

\* extract_from_text: the ExtractedMatch of one capture
ExtractedMatch(ex, capture) ==
    [kind |-> capture.node.kind,
     name |-> ex.captures[capture.index],
     text |-> capture.node.text,
     start |-> capture.node.start,
     end |-> capture.node.end]

\* Language::name (the display-only file type tag of an ExtractedFile)
LanguageName(l) == to_string(l)

TodoResult == [kind |-> "todo", file |-> <<>>, err |-> <<>>]
SkipResult == [kind |-> "skip", file |-> <<>>, err |-> <<>>]
NoneResult == [kind |-> "none", file |-> <<>>, err |-> <<>>]
SomeResult(f) == [kind |-> "some", file |-> <<f>>, err |-> <<>>]
ErrResult(e) == [kind |-> "err", file |-> <<>>, err |-> e]

\* extract_from_text without the is_empty() test: Some(file) whatever was matched
extract_from_text_KeepEmpty(ex, path, source) ==
    LET matches == Matches(ex.query, source)
        captures == Flatten([m \in 1..Len(matches) |-> matches[m].captures])
        extracted_matches == [c \in 1..Len(captures) |-> ExtractedMatch(ex, captures[c])]
    IN IF \E c \in 1..Len(captures) : ~captures[c].node.utf8
       THEN ErrResult(<<"could not extract text from capture">>)
       ELSE SomeResult([file |-> path,
                        file_type |-> LanguageName(ex.language),
                        matches |-> extracted_matches])

\* Extractor::extract_from_text: parse, run the query, flatten the captures of
\* every match, decode each node's text; None when no capture is left
extract_from_text(ex, path, source) ==
    LET matches == Matches(ex.query, source)
        captures == Flatten([m \in 1..Len(matches) |-> matches[m].captures])
        extracted_matches == [c \in 1..Len(captures) |-> ExtractedMatch(ex, captures[c])]
    IN IF \E c \in 1..Len(captures) : ~captures[c].node.utf8
       THEN ErrResult(<<"could not extract text from capture">>)
       ELSE IF extracted_matches = <<>>
            THEN NoneResult
            ELSE SomeResult([file |-> path,
                             file_type |-> LanguageName(ex.language),
                             matches |-> extracted_matches])

\* Extractor::extract_from_file: fs::read, then extract_from_text
extract_from_file(ex, entry) ==
    IF ~entry.readable THEN ErrResult(<<"could not read file">>)
    ELSE extract_from_text(ex, <<entry.path>>, entry.nodes)

\* ExtractorChooser::extractor_for: by the entry's file type, the first
\* registered extractor of that language; none for any other entry
extractor_for(exs, entry) ==
    LET hits == {i \in 1..Len(exs) : exs[i].language = entry.ftype}
    IN IF hits = {} THEN <<>>
       ELSE <<exs[CHOOSE i \in hits : \A j \in hits : i <= j]>>

\* the filter_map dropping the errors as it drops Ok(None)
CollectResults_DropErrors(res) ==
    [errs |-> {}, files |-> Flatten([i \in DOMAIN res |-> res[i].file])]

\* do_query: filter_map dropping Ok(None), then collect::<Result<Vec<_>>>():
\* the files in item order, or the errors (any one of them is returned)
CollectResults(res) ==
    LET errs == {i \in DOMAIN res : res[i].kind = "err"}
    IN [errs |-> errs,
        files |-> Flatten([i \in DOMAIN res |-> res[i].file])]

\* ------------------------------------------------------------------- sort
\* derive(PartialOrd, Ord): fields in declaration order, sequences
\* lexicographically, strings by their bytes.  Cmp* return -1, 0 or 1.
CharOrder == <<"_", "a", "b", "e", "h", "q", "r", "u", "x", "y", "z">>

StrOrder == <<"", "a.rs", "b.rs", "bad.rs", "c", "c.py", "cpp", "f2", "fa", "fb", "fc", "go",
              "javascript", "lua", "markdown", "python", "raw.rs", "rust">>

CmpInt(a, b) == IF a < b THEN -1 ELSE IF a > b THEN 1 ELSE 0

CmpChar(a, b) == CmpInt(IndexOf(CharOrder, a), IndexOf(CharOrder, b))

CmpStr(a, b) == CmpInt(IndexOf(StrOrder, a), IndexOf(StrOrder, b))

RECURSIVE CmpChars(_, _)
CmpChars(s, t) ==
    IF s = <<>> THEN (IF t = <<>> THEN 0 ELSE -1)
    ELSE IF t = <<>> THEN 1
    ELSE IF CmpChar(Head(s), Head(t)) # 0 THEN CmpChar(Head(s), Head(t))
    ELSE CmpChars(Tail(s), Tail(t))

CmpPoint(p, q) ==
    IF CmpInt(p.row, q.row) # 0 THEN CmpInt(p.row, q.row) ELSE CmpInt(p.column, q.column)

\* ExtractedMatch: kind, name, text, start, end
CmpMatch(m, n) ==
    IF CmpChars(m.kind, n.kind) # 0 THEN CmpChars(m.kind, n.kind)
    ELSE IF CmpChars(m.name, n.name) # 0 THEN CmpChars(m.name, n.name)
    ELSE IF CmpStr(m.text, n.text) # 0 THEN CmpStr(m.text, n.text)
    ELSE IF CmpPoint(m.start, n.start) # 0 THEN CmpPoint(m.start, n.start)
    ELSE CmpPoint(m.end, n.end)

RECURSIVE CmpMatches(_, _)
CmpMatches(s, t) ==
    IF s = <<>> THEN (IF t = <<>> THEN 0 ELSE -1)
    ELSE IF t = <<>> THEN 1
    ELSE IF CmpMatch(Head(s), Head(t)) # 0 THEN CmpMatch(Head(s), Head(t))
    ELSE CmpMatches(Tail(s), Tail(t))

\* Option<PathBuf>: None before Some
CmpOptPath(f, g) ==
    IF f = <<>> THEN (IF g = <<>> THEN 0 ELSE -1)
    ELSE IF g = <<>> THEN 1
    ELSE CmpStr(f[1], g[1])

\* an order that looks at the file type only
CmpFile_TypeOnly(f, g) == CmpStr(f.file_type, g.file_type)

\* ExtractedFile: file, file_type, matches
CmpFile(f, g) ==
    IF CmpOptPath(f.file, g.file) # 0 THEN CmpOptPath(f.file, g.file)
    ELSE IF CmpStr(f.file_type, g.file_type) # 0 THEN CmpStr(f.file_type, g.file_type)
    ELSE CmpMatches(f.matches, g.matches)

\* the comparison reversed: x goes after every element that is not less than it
RECURSIVE InsertSorted_Reversed(_, _)
InsertSorted_Reversed(sorted, x) ==
    IF sorted = <<>> THEN <<x>>
    ELSE IF CmpFile(x, Head(sorted)) > 0 THEN <<x>> \o sorted
    ELSE <<Head(sorted)>> \o InsertSorted_Reversed(Tail(sorted), x)

\* x goes after every element that is not greater than it
RECURSIVE InsertSorted(_, _)
InsertSorted(sorted, x) ==
    IF sorted = <<>> THEN <<x>>
    ELSE IF CmpFile(x, Head(sorted)) < 0 THEN <<x>> \o sorted
    ELSE <<Head(sorted)>> \o InsertSorted(Tail(sorted), x)

\* Vec::sort: stable
RECURSIVE SortFiles(_)
SortFiles(files) ==
    IF files = <<>> THEN <<>>
    ELSE InsertSorted(SortFiles(SubSeq(files, 1, Len(files) - 1)), files[Len(files)])

\* -------------------------------------------------------------- formatting
\* Display for ExtractedFile: one line per match,
\* "{filename}:{row+1}:{column+1}:{name}:{text}"
Filename(f) == IF f.file = <<>> THEN "NO FILE" ELSE f.file[1]

DisplayFile(f) ==
    [i \in 1..Len(f.matches) |->
        [filename |-> Filename(f),
         row |-> f.matches[i].start.row + 1,
         column |-> f.matches[i].start.column + 1,
         name |-> f.matches[i].name,
         text |-> f.matches[i].text]]

\* serialize_point leaving the column as stored
serialize_point_ColumnAsStored(point) == [row |-> point.row + 1, column |-> point.column]

\* serialize_point: {"row": row + 1, "column": column + 1}
serialize_point(point) == [row |-> point.row + 1, column |-> point.column + 1]

\* derive(Serialize) for ExtractedMatch
SerializeMatch(m) ==
    [kind |-> m.kind, name |-> m.name, text |-> m.text,
     start |-> serialize_point(m.start), end |-> serialize_point(m.end)]

\* derive(Serialize) for ExtractedFile
SerializeFile(f) ==
    [file |-> f.file, file_type |-> f.file_type,
     matches |-> [i \in 1..Len(f.matches) |-> SerializeMatch(f.matches[i])]]

\* ------------------------------------------------------ the written text
\* What a writer receives is a sequence of items: a character of a string
\* ("ch"), or everything else of a JSON value or of a line, which holds no line
\* feed ("file", "match", "line", "punct").
NL == "\n"
Quote == "\""
Backslash == "\\"

Ch(c) == [t |-> "ch", v |-> c]
Punct(c) == [t |-> "punct", v |-> c]

\* the characters of a node's text in its source file
Chars(text) ==
    CASE text = "fa" -> <<"f", "a">>
      [] text = "fb" -> <<"f", "b">>
      [] text = "fc" -> <<"f", "c", Quote>>
      [] text = "f2" -> <<"f", NL, "b">>
      [] OTHER -> <<>>

\* a JSON string body written as it is
EscapeJson_Raw(cs) == [i \in 1..Len(cs) |-> Ch(cs[i])]

\* serde_json's string body: '"', '\' and control characters are escaped
EscapeJson(cs) ==
    Flatten([i \in 1..Len(cs) |->
        CASE cs[i] = NL -> <<Ch(Backslash), Ch("n")>>
          [] cs[i] = Quote -> <<Ch(Backslash), Ch(Quote)>>
          [] cs[i] = Backslash -> <<Ch(Backslash), Ch(Backslash)>>
          [] OTHER -> <<Ch(cs[i])>>])

\* serde_json::to_string(&ExtractedMatch): the compact object, its text a string
MatchJson(m) ==
    <<[t |-> "match", v |-> [kind |-> m.kind, name |-> m.name,
                             start |-> m.start, end |-> m.end]], Ch(Quote)>>
        \o EscapeJson(Chars(m.text)) \o <<Ch(Quote)>>

\* serde_json::to_string(&ExtractedFile) of the serialized record
to_json_string(sf) ==
    <<[t |-> "file", v |-> [file |-> sf.file, file_type |-> sf.file_type]]>>
        \o Flatten([i \in 1..Len(sf.matches) |-> MatchJson(sf.matches[i])])

\* writeln!(out, "{}", s)
writeln(s) == s \o <<Ch(NL)>>

\* serde_json::to_writer(out, &extracted_files): the compact array
to_writer(sfs) ==
    <<Punct("[")>>
        \o Flatten([i \in 1..Len(sfs) |->
              (IF i > 1 THEN <<Punct(",")>> ELSE <<>>) \o to_json_string(sfs[i])])
        \o <<Punct("]")>>

\* serde_json::to_writer_pretty: the same array, one element per line
to_writer_pretty(sfs) ==
    <<Punct("[")>>
        \o Flatten([i \in 1..Len(sfs) |->
              (IF i > 1 THEN <<Punct(",")>> ELSE <<>>) \o <<Ch(NL)>> \o to_json_string(sfs[i])])
        \o (IF sfs = <<>> THEN <<>> ELSE <<Ch(NL)>>) \o <<Punct("]")>>

\* write!(out, "{}", extracted_file): Display, one terminated line per match
DisplayText(f) ==
    Flatten([i \in 1..Len(f.matches) |->
        <<[t |-> "line", v |-> [filename |-> Filename(f),
                                row |-> f.matches[i].start.row + 1,
                                column |-> f.matches[i].start.column + 1,
                                name |-> f.matches[i].name]]>>
            \o [j \in 1..Len(Chars(f.matches[i].text)) |-> Ch(Chars(f.matches[i].text)[j])]
            \o <<Ch(NL)>>])

\* usize arithmetic: the model keeps a width of 16 bits for the 64 of the
\* target.  A debug build panics on overflow, a release build wraps.
UsizeModulus == 65536

usize_overflows(n) == n < 0 \/ n >= UsizeModulus

usize_wrap(n) == n % UsizeModulus

\* do_query, pretty: the highlighted range of a match and the printed range
PrettyRange(m) ==
    [s |-> m.start.row + 1,
     e |-> IF m.end.column = 0 THEN m.end.row ELSE m.end.row + 1]

\* --------------------------------------------------------------- the state
VARIABLES
    argv,           \* the parsed command line (input)
    env,            \* the walked tree and the size of the thread pools (input)
    pc,             \* where the main thread is
    idx,            \* Invocation::extractors: the next -q pair
    query_strings,  \* Invocation::extractors: HashMap<Language, String>
    extractors,     \* Invocation::extractors: out
    invocation,     \* the Invocation from_args returned
    result,         \* what try_main returned
    pending,        \* find_files: walk results no callback has seen yet
    walker,         \* find_files: each walker thread, "running" or "done"
    quit,           \* find_files: a callback returned WalkState::Quit
    channel,        \* find_files: the unbounded channel
    root_sender,    \* find_files: root_sender is alive
    stderr,         \* what eprintln! printed
    items,          \* do_query: the entries find_files returned
    work,           \* do_query: each item "todo", "busy" or "done"
    results,        \* do_query: the outcome of the map stage for each item
    worker,         \* do_query: each pool worker (one job of the map stage): its item,
                    \* its parser (id, language) and the last parse it made
    parses,         \* how often Parser::parse ran for each item
    extracted_files,\* do_query: the collected ExtractedFile records
    fidx,           \* do_query: the next file to format
    out,            \* the writes to the output writer
    screen          \* what bat printed

argsVars == <<argv, pc, idx, query_strings, extractors, invocation, result>>
walkVars == <<pending, walker, quit, channel, root_sender, stderr, items>>
mapVars == <<work, results, worker, parses, extracted_files>>
outVars == <<fidx, out, screen>>

vars == <<argv, env, pc, idx, query_strings, extractors, invocation, result,
          pending, walker, quit, channel, root_sender, stderr, items,
          work, results, worker, parses, extracted_files, fidx, out, screen>>

NoResult == [ok |-> TRUE, returned |-> FALSE, context |-> <<>>, cause |-> <<>>]
OkResult == [ok |-> TRUE, returned |-> TRUE, context |-> <<>>, cause |-> <<>>]
Err(context, cause) == [ok |-> FALSE, returned |-> TRUE, context |-> context, cause |-> cause]

NoInvocation == [kind |-> "none", extractors |-> <<>>, paths |-> <<>>, format |-> "",
                 sort |-> FALSE, before_lines |-> 0, after_lines |-> 0,
                 language |-> NoLang]

ConfigContext == "couldn't get a valid configuration from the command-line options"

\* from_args failed: try_main returns the error with its context
ConfigError(context, cause) ==
    /\ pc' = "failed"
    /\ result' = Err(<<ConfigContext>> \o context, cause)
    /\ query_strings' = EmptyMap
    /\ extractors' = <<>>
    /\ UNCHANGED <<argv, idx, invocation>>

\* Invocation::from_args, after clap: --languages, --show-tree, or the queries
FromArgs ==
    /\ pc = "start"
    /\ CASE argv.mode = "languages" ->
              /\ invocation' = [NoInvocation EXCEPT !.kind = "ShowLanguages"]
              /\ pc' = "dispatch"
              /\ UNCHANGED <<argv, idx, query_strings, extractors, result>>
         [] argv.mode = "show-tree" ->
              LET lang == from_str(argv.show_tree) IN
              IF ~lang.ok THEN ConfigError(<<"could not parse language">>, <<"from_str", lang>>)
              ELSE IF Len(argv.paths) # 1
                   THEN ConfigError(<<>>, <<"need exactly one path to print a tree">>)
                   ELSE /\ invocation' = [NoInvocation EXCEPT !.kind = "ShowTree",
                                             !.language = lang.lang, !.paths = argv.paths]
                        /\ pc' = "dispatch"
                        /\ UNCHANGED <<argv, idx, query_strings, extractors, result>>
         [] argv.mode = "query" ->
              /\ pc' = "pairs"
              /\ idx' = 1
              /\ query_strings' = EmptyMap
              /\ UNCHANGED <<argv, extractors, invocation, result>>
    /\ UNCHANGED <<env, walkVars, mapVars, outVars>>

\* Invocation::extractors, one turn of: for (raw_lang, raw_query) in values.tuples()
ExtractorsLoop ==
    /\ pc = "pairs"
    /\ IF idx > Len(argv.pairs)
       THEN /\ pc' = "build"
            /\ extractors' = <<>>
            /\ UNCHANGED <<argv, idx, query_strings, invocation, result>>
       ELSE LET pair == argv.pairs[idx]
                lang == from_str(pair.lang)
                temp_query == parse_query(lang.lang, pair.query)
            IN IF ~lang.ok
               THEN ConfigError(<<"could not parse language">>, <<"from_str", lang>>)
               ELSE IF ~temp_query.ok
               THEN ConfigError(<<"could not parse query">>, <<"parse_query", temp_query.err>>)
               ELSE /\ query_strings' = MergeQuery(query_strings, lang.lang,
                                                   QueryOut(pair.query, temp_query))
                    /\ idx' = idx + 1
                    /\ UNCHANGED <<argv, pc, extractors, invocation, result>>
    /\ UNCHANGED <<env, walkVars, mapVars, outVars>>

\* Invocation::extractors, one turn of: for (lang, raw_query) in query_strings
\* (a HashMap: any order)
ExtractorsBuild ==
    /\ pc = "build"
    /\ IF DOMAIN query_strings = {}
       THEN /\ pc' = "opts"
            /\ UNCHANGED <<argv, idx, query_strings, extractors, invocation, result>>
       ELSE \E lang \in DOMAIN query_strings :
              LET query == parse_query(lang, query_strings[lang])
                  preds == IF query.ok THEN UnknownPredicate(query) ELSE <<>>
              IN IF ~query.ok
                 THEN ConfigError(<<"could not parse combined query">>,
                                  <<"parse_query", query.err>>)
                 ELSE IF preds # <<>>
                 THEN ConfigError(<<>>, <<"Unknown predicate", preds[1]>>)
                 ELSE /\ extractors' = Append(extractors, ExtractorNew(lang, query))
                      /\ query_strings' = [l \in DOMAIN query_strings \ {lang} |->
                                              query_strings[l]]
                      /\ UNCHANGED <<argv, pc, idx, invocation, result>>
    /\ UNCHANGED <<env, walkVars, mapVars, outVars>>

\* Invocation::from_args: Ok(Self::DoQuery(QueryOpts {...}))
FromArgsDoQuery ==
    /\ pc = "opts"
    /\ invocation' = [NoInvocation EXCEPT !.kind = "DoQuery", !.extractors = extractors,
                         !.paths = argv.paths, !.format = argv.format, !.sort = argv.sort,
                         !.before_lines = argv.before_lines,
                         !.after_lines = argv.after_lines]
    /\ pc' = "dispatch"
    /\ UNCHANGED <<argv, idx, query_strings, extractors, result>>
    /\ UNCHANGED <<env, walkVars, mapVars, outVars>>

\* try_main: match invocation (show_tree is not followed further)
TryMain ==
    /\ pc = "dispatch"
    /\ invocation.kind \in {"DoQuery", "ShowLanguages"}
    /\ IF invocation.kind = "ShowLanguages"
       THEN pc' = "done" /\ result' = OkResult
       ELSE pc' = "find_files" /\ UNCHANGED result
    /\ UNCHANGED <<argv, idx, query_strings, extractors, invocation>>
    /\ UNCHANGED <<env, walkVars, mapVars, outVars>>

QueryContext == "couldn't perform the query"

\* ----------------------------------------------------------- find_files
\* the callback stopping the walk at the first error
Callback_QuitOnError(entry_result, receiver_alive) ==
    IF entry_result.ok
    THEN IF receiver_alive
         THEN [state |-> "Continue", sent |-> <<entry_result>>, logged |-> <<>>]
         ELSE [state |-> "Quit", sent |-> <<>>, logged |-> <<>>]
    ELSE [state |-> "Quit", sent |-> <<>>, logged |-> <<entry_result.path>>]

\* the callback of a walker thread: an entry is sent, an error is printed
Callback(entry_result, receiver_alive) ==
    IF entry_result.ok
    THEN IF receiver_alive
         THEN [state |-> "Continue", sent |-> <<entry_result>>, logged |-> <<>>]
         ELSE [state |-> "Quit", sent |-> <<>>, logged |-> <<>>]
    ELSE [state |-> "Continue", sent |-> <<>>, logged |-> <<entry_result.path>>]

Senders == (IF root_sender THEN 1 ELSE 0) + Cardinality({t \in DOMAIN walker : walker[t] = "running"})

\* find_files: the builder, the channel, and run() building one callback (with
\* its clone of the sender) per thread
FindFiles ==
    /\ pc = "find_files"
    /\ IF invocation.paths = <<>>
       THEN /\ pc' = "failed"
            /\ result' = Err(<<QueryContext, "had a problem while walking the filesystem">>,
                             <<"I need at least one file or directory to walk!">>)
            /\ UNCHANGED walkVars
       ELSE /\ pc' = "walking"
            /\ pending' = env.tree
            /\ walker' = [t \in 1..env.threads |-> "running"]
            /\ root_sender' = TRUE
            /\ channel' = <<>>
            /\ UNCHANGED <<result, quit, stderr, items>>
    /\ UNCHANGED <<argv, env, idx, query_strings, extractors, invocation, mapVars, outVars>>

\* a walker thread hands one walk result to its callback
WalkerVisit(t) ==
    /\ pc = "walking"
    /\ walker[t] = "running"
    /\ ~quit
    /\ \E e \in pending :
         LET r == Callback(e, TRUE) IN
         /\ pending' = pending \ {e}
         /\ channel' = channel \o r.sent
         /\ stderr' = stderr \o r.logged
         /\ quit' = (r.state = "Quit")
    /\ UNCHANGED <<walker, root_sender, items>>
    /\ UNCHANGED <<argsVars, env, mapVars, outVars>>

\* a walker thread ends (no work is left, or a callback asked to quit) and
\* drops its callback, and with it its sender
WalkerExit(t) ==
    /\ pc = "walking"
    /\ walker[t] = "running"
    /\ pending = {} \/ quit
    /\ walker' = [walker EXCEPT ![t] = "done"]
    /\ UNCHANGED <<pending, quit, channel, root_sender, stderr, items>>
    /\ UNCHANGED <<argsVars, env, mapVars, outVars>>

\* find_files going on to the drain with root_sender still alive
DropRootSender_Forgotten ==
    /\ pc = "walking"
    /\ \A t \in DOMAIN walker : walker[t] = "done"
    /\ pc' = "drain"
    /\ UNCHANGED <<pending, walker, quit, channel, root_sender, stderr, items>>
    /\ UNCHANGED <<argv, env, idx, query_strings, extractors, invocation, result,
                   mapVars, outVars>>

\* run() returns once every thread ended; drop(root_sender)
DropRootSender ==
    /\ pc = "walking"
    /\ \A t \in DOMAIN walker : walker[t] = "done"
    /\ root_sender' = FALSE
    /\ pc' = "drain"
    /\ UNCHANGED <<pending, walker, quit, channel, stderr, items>>
    /\ UNCHANGED <<argv, env, idx, query_strings, extractors, invocation, result,
                   mapVars, outVars>>

\* a drain that keeps only what it received last
Recv_KeepsLast ==
    /\ pc = "drain"
    /\ channel # <<>>
    /\ items' = <<Head(channel)>>
    /\ channel' = Tail(channel)
    /\ UNCHANGED <<pending, walker, quit, root_sender, stderr>>
    /\ UNCHANGED <<argsVars, env, mapVars, outVars>>

\* receiver.iter().collect(): one recv
Recv ==
    /\ pc = "drain"
    /\ channel # <<>>
    /\ items' = Append(items, Head(channel))
    /\ channel' = Tail(channel)
    /\ UNCHANGED <<pending, walker, quit, root_sender, stderr>>
    /\ UNCHANGED <<argsVars, env, mapVars, outVars>>

\* receiver.iter() ends: the channel is empty and every sender is dropped;
\* do_query goes on to build the chooser and start the map stage
DrainEnd ==
    /\ pc = "drain"
    /\ channel = <<>>
    /\ Senders = 0
    /\ pc' = "extract"
    /\ work' = [i \in 1..Len(items) |-> "todo"]
    /\ results' = [i \in 1..Len(items) |-> TodoResult]
    /\ worker' = [w \in 1..env.threads |->
                      [item |-> 0, parser |-> "none", pid |-> 0, parsed |-> <<>>]]
    /\ parses' = [i \in 1..Len(items) |-> 0]
    /\ UNCHANGED <<extracted_files, walkVars, outVars>>
    /\ UNCHANGED <<argv, env, idx, query_strings, extractors, invocation, result>>

\* ------------------------------------------------------ the map stage
\* map_init(Parser::new, ..): the parser a worker makes for itself
ParserNew(w) == w

\* a parser whose language is set once, when it is new
set_language_OnlyNew(parser, language) == IF parser = "new" THEN language ELSE parser

\* extract_from_text: parser.set_language(self.ts_language), before the parse
set_language(parser, language) == language

\* a pool worker takes an item: the chooser (filter_map), and for a chosen
\* entry its parser (map_init: Parser::new, once per worker)
WorkerBegin(w) ==
    /\ pc = "extract"
    /\ worker[w].item = 0
    /\ \E i \in DOMAIN work :
         /\ work[i] = "todo"
         /\ IF extractor_for(invocation.extractors, items[i]) = <<>>
            THEN /\ work' = [work EXCEPT ![i] = "done"]
                 /\ results' = [results EXCEPT ![i] = SkipResult]
                 /\ UNCHANGED worker
            ELSE /\ work' = [work EXCEPT ![i] = "busy"]
                 /\ worker' = [worker EXCEPT ![w].item = i,
                                  ![w].parser = IF @ = "none" THEN "new" ELSE @,
                                  ![w].pid = IF @ = 0 THEN ParserNew(w) ELSE @]
                 /\ UNCHANGED results
    /\ UNCHANGED <<parses, extracted_files>>
    /\ UNCHANGED <<argsVars, env, walkVars, outVars>>

\* the worker runs extract_from_file on its item with its parser
WorkerEnd(w) ==
    /\ pc = "extract"
    /\ worker[w].item # 0
    /\ LET i == worker[w].item
           ex == extractor_for(invocation.extractors, items[i])[1]
           r == extract_from_file(ex, items[i])
           language == set_language(worker[w].parser, ex.language)
       IN /\ results' = [results EXCEPT ![i] =
                 IF r.kind = "err"
                 THEN ErrResult(<<"could not extract matches from", items[i].path>> \o r.err)
                 ELSE r]
          /\ parses' = [parses EXCEPT ![i] = IF items[i].readable THEN @ + 1 ELSE @]
          /\ worker' = [worker EXCEPT ![w].item = 0,
                           ![w].parser = IF items[i].readable THEN language ELSE @,
                           ![w].parsed = IF items[i].readable
                                         THEN <<[with |-> language, file |-> items[i].ftype]>>
                                         ELSE @]
          /\ work' = [work EXCEPT ![i] = "done"]
    /\ UNCHANGED extracted_files
    /\ UNCHANGED <<argsVars, env, walkVars, outVars>>

\* a stage that returns on the first error without waiting for the workers
StageReturns_Cancels(errs) ==
    errs # {} \/ \A i \in DOMAIN work : work[i] = "done"

\* the parallel iterator returns to its caller: no worker is inside the closure
\* and either every item went through or an error was saved (while_some then
\* stops handing out items)
StageReturns(errs) ==
    /\ \A w \in DOMAIN worker : worker[w].item = 0
    /\ errs # {} \/ \A i \in DOMAIN work : work[i] = "done"

\* collect::<Result<Vec<_>>>() returns: every item is done, or an error was
\* seen and the pool stopped taking items; then if opts.sort { sort() }
Collect ==
    /\ pc = "extract"
    /\ LET c == CollectResults(results) IN
       /\ StageReturns(c.errs)
       /\ IF c.errs # {}
          THEN \E i \in c.errs :
                 /\ pc' = "failed"
                 /\ result' = Err(<<QueryContext, "couldn't extract matches from files">>,
                                  results[i].err)
                 /\ UNCHANGED <<extracted_files, fidx>>
          ELSE /\ pc' = "format"
               /\ extracted_files' = IF invocation.sort THEN SortFiles(c.files) ELSE c.files
               /\ fidx' = 1
               /\ UNCHANGED result
    /\ UNCHANGED <<work, results, worker, parses, out, screen>>
    /\ UNCHANGED <<argv, env, idx, query_strings, extractors, invocation, walkVars>>

\* ---------------------------------------------------------- the formatter
\* do_query, pretty: what one file hands to bat: the highlighted ranges and
\* LineRange::new(s - opts.before_lines, e + opts.after_lines) of every match
PrettyFile(f, before_lines, after_lines) ==
    [file |-> f.file[1],
     language |-> f.file_type,
     highlight |-> [i \in 1..Len(f.matches) |-> PrettyRange(f.matches[i])],
     line_ranges |-> [i \in 1..Len(f.matches) |->
                        LET r == PrettyRange(f.matches[i])
                        IN [lower |-> usize_wrap(r.s - before_lines),
                            upper |-> usize_wrap(r.e + after_lines)]]]

PrettyOverflows(f, before_lines, after_lines) ==
    \E i \in 1..Len(f.matches) :
        LET r == PrettyRange(f.matches[i])
        IN usize_overflows(r.s - before_lines) \/ usize_overflows(r.e + after_lines)

\* do_query: match opts.format, one write at a time
Format ==
    /\ pc = "format"
    /\ LET n == Len(extracted_files)
           whole == invocation.format \in {"json", "pretty-json"}
       IN
       IF (whole /\ fidx > 1) \/ (~whole /\ fidx > n)
       THEN /\ pc' = "done"
            /\ result' = OkResult
            /\ UNCHANGED outVars
       ELSE IF /\ invocation.format = "pretty"
               /\ PrettyOverflows(extracted_files[fidx], invocation.before_lines,
                                   invocation.after_lines)
       THEN \* s - before_lines or e + after_lines overflows: the debug build
            \* panics here, the release build goes on with the wrapped value
            \/ /\ pc' = "panicked"
               /\ result' = Err(<<QueryContext>>, <<"attempt to subtract with overflow">>)
               /\ UNCHANGED outVars
            \/ /\ fidx' = fidx + 1
               /\ screen' = Append(screen, PrettyFile(extracted_files[fidx],
                                invocation.before_lines, invocation.after_lines))
               /\ UNCHANGED <<pc, result, out>>
       ELSE /\ fidx' = fidx + 1
            /\ UNCHANGED <<pc, result>>
            /\ CASE invocation.format = "lines" ->
                      /\ out' = Append(out, [format |-> "lines",
                                             value |-> DisplayFile(extracted_files[fidx]),
                                             text |-> DisplayText(extracted_files[fidx])])
                      /\ UNCHANGED screen
                 [] invocation.format = "json-lines" ->
                      /\ out' = Append(out, [format |-> "json-lines",
                                 value |-> SerializeFile(extracted_files[fidx]),
                                 text |-> writeln(to_json_string(
                                              SerializeFile(extracted_files[fidx])))])
                      /\ UNCHANGED screen
                 [] whole ->
                      /\ LET sfs == [i \in 1..n |-> SerializeFile(extracted_files[i])]
                         IN out' = Append(out, [format |-> invocation.format,
                                value |-> sfs,
                                text |-> IF invocation.format = "json"
                                         THEN to_writer(sfs) ELSE to_writer_pretty(sfs)])
                      /\ UNCHANGED screen
                 [] invocation.format = "pretty" ->
                      /\ screen' = Append(screen, PrettyFile(extracted_files[fidx],
                                       invocation.before_lines, invocation.after_lines))
                      /\ UNCHANGED out
    /\ UNCHANGED <<argv, env, idx, query_strings, extractors, invocation, walkVars, mapVars>>

\* ----------------------------------------------------------------- inputs
\* the names a user may type: every display name, every accepted name, and one
\* that is neither
InputNames ==
    {to_string(l) : l \in Languages} \cup {name_for_types_builder(l) : l \in Languages}
        \cup {"elm"}

QA == <<NodeTok(KindA)>>
QAx == <<NodeTok(KindA), CapTok(CapX)>>
QBy == <<NodeTok(KindB), CapTok(CapY)>>
QAhx == <<NodeTok(KindA), CapTok(CapHelper), CapTok(CapX)>>
QAh == <<NodeTok(KindA), CapTok(CapHelper)>>
QAB == <<NodeTok(KindA), NodeTok(KindB)>>
QAxComment == <<NodeTok(KindA), CapTok(CapX), CommentTok>>
QBad == <<NodeTok(KindBad)>>
QCapOnly == <<CapTok(CapX)>>
QPred == <<PredTok(KindB), CapTok(CapY)>>

QueryTexts == {QA, QAx, QBy, QAhx, QAh, QAB, QAxComment, QBad, QCapOnly, QPred}

Pair(n, q) == [lang |-> n, query |-> q]

ArgPairs ==
    {Pair(n, QAx) : n \in InputNames} \cup {Pair(n, q) : n \in {"rust", "py"}, q \in QueryTexts}

Formats == {"lines", "json", "json-lines", "pretty-json", "pretty"}

QueryArgv(ps, f, s) ==
    [mode |-> "query", show_tree |-> "", pairs |-> ps, paths |-> <<".">>,
     format |-> f, sort |-> s, before_lines |-> 0, after_lines |-> 0]

\* the values of --before and --after
ContextLines == {0, 2}

LanguagesArgv == [QueryArgv(<<>>, "pretty", FALSE) EXCEPT !.mode = "languages"]

ShowTreeArgv(n, p) ==
    [QueryArgv(<<>>, "pretty", FALSE) EXCEPT !.mode = "show-tree", !.show_tree = n,
                                             !.paths = p]

\* the nodes of the walked files
Node(k, txt, ok, sr, sc, er, ec) ==
    [kind |-> k, text |-> txt, utf8 |-> ok,
     start |-> [row |-> sr, column |-> sc], end |-> [row |-> er, column |-> ec]]

\* a walk result: root is the path argument it was reached from
File(p, l, nodes) ==
    [ok |-> TRUE, path |-> p, ftype |-> l, readable |-> TRUE, nodes |-> nodes, root |-> 1]

WalkResults ==
    { File("a.rs", "Rust", <<Node(KindA, "fa", TRUE, 0, 0, 0, 3),
                             Node(KindB, "f2", TRUE, 1, 2, 2, 0)>>),
      File("b.rs", "Rust", <<Node(KindB, "fb", TRUE, 0, 4, 0, 6)>>),
      [File("b.rs", "Rust", <<Node(KindB, "fb", TRUE, 0, 4, 0, 6)>>) EXCEPT !.root = 2],
      [File("bad.rs", "Rust", <<>>) EXCEPT !.readable = FALSE],
      File("raw.rs", "Rust", <<Node(KindA, "fc", FALSE, 0, 0, 0, 1)>>),
      File("c.py", "Python", <<Node(KindA, "", TRUE, 0, 0, 0, 0),
                               Node(KindA, "fa", TRUE, 2, 1, 2, 4)>>),
      [File("locked", NoLang, <<>>) EXCEPT !.ok = FALSE] }

Trees == {t \in SUBSET WalkResults : Cardinality(t) <= MaxEntries}

\* the command lines of the whole-run specification
RunPairs ==
    { <<Pair("rust", QAx)>>,
      <<Pair("rust", QAx), Pair("rust", QBy)>>,
      <<Pair("rust", QAhx)>>,
      <<Pair("rust", QAh)>>,
      <<Pair("rust", QA)>>,
      <<Pair("rust", QAxComment), Pair("rust", QBy)>>,
      <<Pair("py", QAx), Pair("rust", QBy)>>,
      <<Pair("python", QAx)>>,
      <<Pair("rust", QBad)>>,
      <<Pair("rust", QAx), Pair("rust", QPred)>>,
      <<Pair("rust", QAxComment), Pair("rust", QPred)>> }

\* every command line in the lines format, one of them in every format, sorted
\* and not
RunArgvs ==
    {QueryArgv(ps, "lines", FALSE) : ps \in RunPairs}
        \cup {QueryArgv(<<Pair("py", QAx), Pair("rust", QBy)>>, f, s) :
                 f \in Formats, s \in BOOLEAN}
        \cup {[QueryArgv(<<Pair("py", QAx), Pair("rust", QBy)>>, "pretty", FALSE)
                    EXCEPT !.before_lines = b, !.after_lines = a] :
                 <<b, a>> \in {c \in ContextLines \X ContextLines : c[1] # c[2]}}
        \cup {LanguagesArgv}

InitRest ==
    /\ pc = "start"
    /\ idx = 0
    /\ query_strings = EmptyMap
    /\ extractors = <<>>
    /\ invocation = NoInvocation
    /\ result = NoResult
    /\ pending = {}
    /\ walker = <<>>
    /\ quit = FALSE
    /\ channel = <<>>
    /\ root_sender = FALSE
    /\ stderr = <<>>
    /\ items = <<>>
    /\ work = <<>>
    /\ results = <<>>
    /\ worker = <<>>
    /\ parses = <<>>
    /\ extracted_files = <<>>
    /\ fidx = 0
    /\ out = <<>>
    /\ screen = <<>>

\* the whole run: a command line, a tree, and the size of the thread pools
Init ==
    /\ argv \in RunArgvs
    /\ env \in [tree : Trees, threads : PoolSizes]
    /\ InitRest

Next ==
    \/ FromArgs \/ ExtractorsLoop \/ ExtractorsBuild \/ FromArgsDoQuery \/ TryMain
    \/ FindFiles
    \/ \E t \in DOMAIN walker : WalkerVisit(t)
    \/ \E t \in DOMAIN walker : WalkerExit(t)
    \/ DropRootSender \/ Recv \/ DrainEnd
    \/ \E w \in DOMAIN worker : WorkerBegin(w)
    \/ \E w \in DOMAIN worker : WorkerEnd(w)
    \/ Collect \/ Format

Spec == Init /\ [][Next]_vars

\* the run up to the return of find_files, every thread and the drain being
\* scheduled again and again
InitWalk ==
    /\ argv \in {QueryArgv(ps, "lines", FALSE) :
                    ps \in {<<Pair("rust", QAx)>>, <<Pair("py", QAx), Pair("rust", QBy)>>}}
    /\ env \in [tree : Trees, threads : PoolSizes]
    /\ InitRest

NextWalk ==
    \/ FromArgs \/ ExtractorsLoop \/ ExtractorsBuild \/ FromArgsDoQuery \/ TryMain
    \/ FindFiles
    \/ \E t \in DOMAIN walker : WalkerVisit(t)
    \/ \E t \in DOMAIN walker : WalkerExit(t)
    \/ DropRootSender \/ Recv \/ DrainEnd

SpecWalk == InitWalk /\ [][NextWalk]_vars /\ WF_vars(NextWalk)

\* from_args alone, over every name and query text
InitArgs ==
    /\ argv \in {QueryArgv(ps, "lines", FALSE) : ps \in SeqsUpTo(ArgPairs, MaxPairs)}
                  \cup {ShowTreeArgv(n, p) : n \in InputNames, p \in {<<".">>, <<"a.rs", "b.rs">>}}
                  \cup {LanguagesArgv}
    /\ env = [tree |-> {}, threads |-> 1]
    /\ InitRest

NextArgs == FromArgs \/ ExtractorsLoop \/ ExtractorsBuild \/ FromArgsDoQuery

SpecArgs == InitArgs /\ [][NextArgs]_vars

\* ------------------------------------------------------------ properties
\* the composite query text of a language: the texts of its -q pairs, each with
\* "@query" when it declares no capture, in their order of arrival
RECURSIVE CompositeOf(_, _)
CompositeOf(lang, pairs) ==
    IF pairs = <<>> THEN <<>>
    ELSE (IF from_str(Head(pairs).lang).ok /\ from_str(Head(pairs).lang).lang = lang
          THEN QueryOut(Head(pairs).query, parse_query(lang, Head(pairs).query))
          ELSE <<>>) \o CompositeOf(lang, Tail(pairs))

\* what a file should report for a composite query: for every node and every
\* pattern of the node's kind, each capture of the pattern whose name does not
\* start with '_'
SurvivingCaptures(lang, text, nodes) ==
    LET q == parse_query(lang, text) IN
    {[kind |-> nodes[n].kind, name |-> q.capture_names[q.patterns[p].captures[c]],
      text |-> nodes[n].text, start |-> nodes[n].start, end |-> nodes[n].end] :
        <<n, p, c>> \in
          {x \in (1..Len(nodes)) \X (1..Len(q.patterns)) \X (1..3) :
             /\ x[3] <= Len(q.patterns[x[2]].captures)
             /\ q.patterns[x[2]].kind = nodes[x[1]].kind
             /\ Head(q.capture_names[q.patterns[x[2]].captures[x[3]]]) # "_"}}

Reported(r) == IF r.kind = "some" THEN Range(r.file[1].matches) ELSE {}

Extracted(i) == work[i] = "done" /\ results[i].kind \in {"some", "none"}

\* C1: for every language L of Language::all(), from_str(L.to_string())
\* succeeds and returns L
C1_RoundTrip ==
    \A l \in Languages :
        (argv.mode = "show-tree" /\ argv.show_tree = to_string(l) /\ pc # "start")
            => /\ ~(~result.ok /\ result.cause[1] = "from_str")
               /\ (pc = "dispatch" => invocation.language = l)

\* C10: the names listed by the unknown-language error are exactly the names
\* from_str accepts: every listed name resolves, every accepted name is listed
C10_ErrorListsAcceptedNames ==
    (~result.ok /\ result.cause[1] = "from_str") =>
        LET listed == Range(result.cause[2].try_one_of) IN
        /\ \A n \in listed : from_str(n).ok
        /\ \A n \in InputNames : from_str(n).ok => n \in listed

\* C8: a composite query with a general predicate makes Invocation::extractors
\* fail and return no Extractor; every Extractor that is built comes from a
\* composite query whose patterns all have an empty general-predicate list
C8_PredicatesRejected ==
    /\ \A i \in 1..Len(extractors) : \A p \in 1..Len(extractors[i].query.patterns) :
            extractors[i].query.patterns[p].preds = <<>>
    /\ \A i \in 1..Len(invocation.extractors) :
         \A p \in 1..Len(invocation.extractors[i].query.patterns) :
            invocation.extractors[i].query.patterns[p].preds = <<>>
    /\ pc \in {"opts", "dispatch"} =>
         \A l \in Languages :
            LET q == parse_query(l, CompositeOf(l, argv.pairs)) IN
            \A p \in 1..Len(q.patterns) : q.patterns[p].preds = <<>>
    /\ (~result.ok /\ result.cause[1] = "Unknown predicate") =>
            extractors = <<>> /\ invocation = NoInvocation

C8_Witness ==
    /\ pc = "failed"
    /\ result.cause[1] = "Unknown predicate"
    /\ Len(argv.pairs) = 2
    /\ from_str(argv.pairs[1].lang).lang # from_str(argv.pairs[2].lang).lang

\* the entry an ExtractedFile was extracted from
EntryOf(f) == CHOOSE e \in env.tree : e.path = f.file[1]

\* C2: no reported match has a capture name that starts with '_', and a
\* pattern that has such a capture still matches: every other capture of it is
\* reported
C2_HelperCapturesSuppressed ==
    /\ \A i \in DOMAIN results : Extracted(i) =>
         /\ \A m \in Reported(results[i]) : Head(m.name) # "_"
         /\ Reported(results[i]) =
              SurvivingCaptures(items[i].ftype, CompositeOf(items[i].ftype, argv.pairs),
                                items[i].nodes)
    /\ \A k \in 1..Len(extracted_files) : \A m \in Range(extracted_files[k].matches) :
         Head(m.name) # "_"

C2_Witness ==
    /\ argv.pairs = <<Pair("rust", QAhx)>>
    /\ \E i \in DOMAIN results :
         /\ results[i].kind = "some"
         /\ \E m \in Reported(results[i]) : m.name = CapX /\ m.kind = KindA

\* C3: a file with no surviving capture yields None, neither an error nor an
\* ExtractedFile, and no ExtractedFile that reaches the formatter has an empty
\* sequence of matches
C3_NoEmptyFiles ==
    /\ \A i \in DOMAIN results :
         /\ results[i].kind = "some" => results[i].file[1].matches # <<>>
         /\ ( /\ work[i] = "done"
              /\ results[i].kind # "skip"
              /\ items[i].readable
              /\ SurvivingCaptures(items[i].ftype, CompositeOf(items[i].ftype, argv.pairs),
                                   items[i].nodes) = {} )
            => results[i].kind = "none"
    /\ \A k \in 1..Len(extracted_files) : extracted_files[k].matches # <<>>
    /\ \A k \in 1..Len(out) :
         /\ out[k].format = "lines" => out[k].value # <<>>
         /\ out[k].format = "json-lines" => out[k].value.matches # <<>>
         /\ out[k].format \in {"json", "pretty-json"} =>
              \A j \in 1..Len(out[k].value) : out[k].value[j].matches # <<>>

C3_Witness ==
    /\ pc = "done"
    /\ out # <<>>
    /\ \E i \in DOMAIN results : results[i].kind = "none" /\ items[i].nodes # <<>>

\* C4: when two or more -q pairs share a language, a file of that language is
\* parsed exactly once and its reported matches are the union of the matches
\* each of the queries would report for it on its own
C4_OneParseUnionOfQueries ==
    \A i \in DOMAIN results :
        LET lang == items[i].ftype
            own == {j \in 1..Len(argv.pairs) : from_str(argv.pairs[j].lang).lang = lang}
            alone(j) == extract_from_text(
                            ExtractorNew(lang, parse_query(lang,
                                QueryOut(argv.pairs[j].query,
                                         parse_query(lang, argv.pairs[j].query)))),
                            <<items[i].path>>, items[i].nodes)
        IN (Extracted(i) /\ Cardinality(own) >= 2) =>
             /\ parses[i] = 1
             /\ Reported(results[i]) = UNION {Reported(alone(j)) : j \in own}

\* the part of C4 that the code keeps: one parse of every file that is read
OneParsePerFile ==
    \A i \in DOMAIN parses :
        parses[i] = IF work[i] = "done" /\ results[i].kind # "skip" /\ items[i].readable
                    THEN 1 ELSE 0

\* C5: the lines format prints row + 1 and column + 1 of a match's start in
\* <path>:<row>:<col>:<capture-name>:<text>, the JSON formats serialize start
\* and end as row + 1 and column + 1, and the stored points stay 0-indexed
OneIndexed(sm, m) ==
    /\ sm.start.row = m.start.row + 1 /\ sm.start.column = m.start.column + 1
    /\ sm.end.row = m.end.row + 1 /\ sm.end.column = m.end.column + 1

C5_PositionsOneIndexed ==
    /\ \A k \in 1..Len(out) :
         /\ out[k].format = "lines" =>
              /\ Len(out[k].value) = Len(extracted_files[k].matches)
              /\ \A j \in 1..Len(out[k].value) :
                   out[k].value[j] =
                     [filename |-> extracted_files[k].file[1],
                      row |-> extracted_files[k].matches[j].start.row + 1,
                      column |-> extracted_files[k].matches[j].start.column + 1,
                      name |-> extracted_files[k].matches[j].name,
                      text |-> extracted_files[k].matches[j].text]
         /\ out[k].format = "json-lines" =>
              \A j \in 1..Len(extracted_files[k].matches) :
                   OneIndexed(out[k].value.matches[j], extracted_files[k].matches[j])
         /\ out[k].format \in {"json", "pretty-json"} =>
              \A f \in 1..Len(extracted_files) :
                \A j \in 1..Len(extracted_files[f].matches) :
                   OneIndexed(out[k].value[f].matches[j], extracted_files[f].matches[j])
    /\ \A k \in 1..Len(extracted_files) : \A m \in Range(extracted_files[k].matches) :
         \E n \in Range(EntryOf(extracted_files[k]).nodes) :
             n.kind = m.kind /\ n.start = m.start /\ n.end = m.end

C5_Witness ==
    /\ pc = "done"
    /\ \E k \in 1..Len(out) :
         /\ out[k].format = "json-lines"
         /\ \E j \in 1..Len(out[k].value.matches) :
              /\ out[k].value.matches[j].start = [row |-> 2, column |-> 3]
              /\ out[k].value.matches[j].end = [row |-> 3, column |-> 1]
              /\ extracted_files[k].matches[j].start = [row |-> 1, column |-> 2]

\* C6: when the extraction of a chosen file fails, do_query returns an error
\* and nothing is written in any format: formatting starts only after the
\* whole map stage succeeded
C6_NoOutputOnExtractionError ==
    /\ (\E i \in DOMAIN results : results[i].kind = "err") =>
         /\ out = <<>> /\ screen = <<>>
         /\ pc \in {"extract", "failed"}
         /\ pc = "failed" => ~result.ok /\ result.context[1] = QueryContext
    /\ (out # <<>> \/ screen # <<>>) =>
         /\ pc \in {"format", "done", "panicked"}
         /\ \A i \in DOMAIN work : work[i] = "done" /\ results[i].kind # "err"

C6_Witness ==
    /\ pc = "failed"
    /\ \E i, j \in DOMAIN results : results[i].kind = "err" /\ results[j].kind = "some"

\* C7: an unknown language, a query that does not compile (reported with its
\* 1-indexed row:column) or an unsupported predicate in any -q pair makes
\* from_args fail: try_main returns that error before find_files is called
\* and nothing is written
BadPair(pair) ==
    LET lang == from_str(pair.lang) IN
    \/ ~lang.ok
    \/ ~parse_query(lang.lang, pair.query).ok
    \/ UnknownPredicate(parse_query(lang.lang, pair.query)) # <<>>

C7_ConfigErrorsPrecedeFileWork ==
    (argv.mode = "query" /\ \E j \in 1..Len(argv.pairs) : BadPair(argv.pairs[j])) =>
        /\ pc \in {"start", "pairs", "build", "failed"}
        /\ pc = "failed" => ~result.ok /\ result.context[1] = ConfigContext
        /\ (pc = "failed" /\ argv.pairs = <<Pair("rust", QBad)>>) =>
              result.cause[2].row = 1 /\ result.cause[2].column = 2
        /\ out = <<>> /\ screen = <<>> /\ walker = <<>> /\ items = <<>>

\* the part of C7 that the code keeps: an error of from_args is returned before
\* find_files is called and before anything is written
ConfigFailureBeforeFileWork ==
    (~result.ok /\ result.context[1] = ConfigContext) =>
        /\ pc = "failed"
        /\ out = <<>> /\ screen = <<>> /\ walker = <<>> /\ pending = {} /\ items = <<>>

\* C9: a walk error is never fatal: the callback prints it and returns
\* Continue, find_files returns Ok, and every entry that was walked
\* successfully is in the returned list
WalkReturned == walker # <<>> /\ pc \in {"extract", "format", "done", "failed", "panicked"}

C9_WalkErrorsNotFatal ==
    /\ ~quit
    /\ \A e \in env.tree :
         (walker # <<>> /\ e \notin pending) =>
            IF e.ok THEN e \in Range(channel) \cup Range(items)
            ELSE e.path \in Range(stderr)
    /\ (pc = "drain" /\ channel = <<>>) \/ WalkReturned =>
            Range(items) = {e \in env.tree : e.ok}
    /\ (pc = "failed" /\ walker # <<>>) => Head(result.cause) = "could not extract matches from"

C9_Witness ==
    /\ WalkReturned
    /\ stderr # <<>>
    /\ \E e \in env.tree : ~e.ok
    /\ items # <<>>

\* ---- reading the output back
\* a JSON string body up to its closing quote: [ok, chars, rest]
RECURSIVE ParseString(_, _)
ParseString(toks, acc) ==
    IF toks = <<>> \/ toks[1].t # "ch" \/ toks[1].v = NL
    THEN [ok |-> FALSE, chars |-> acc, rest |-> toks]
    ELSE IF toks[1].v = Quote THEN [ok |-> TRUE, chars |-> acc, rest |-> Tail(toks)]
    ELSE IF toks[1].v = Backslash
         THEN IF Len(toks) < 2 \/ toks[2].t # "ch"
              THEN [ok |-> FALSE, chars |-> acc, rest |-> toks]
              ELSE ParseString(SubSeq(toks, 3, Len(toks)),
                               Append(acc, IF toks[2].v = "n" THEN NL ELSE toks[2].v))
         ELSE ParseString(Tail(toks), Append(acc, toks[1].v))

\* the matches of a file object: [ok, matches, rest]
RECURSIVE ParseMatches(_, _)
ParseMatches(toks, acc) ==
    IF toks = <<>> \/ toks[1].t # "match" THEN [ok |-> TRUE, matches |-> acc, rest |-> toks]
    ELSE IF Len(toks) < 2 \/ toks[2].t # "ch"
         THEN [ok |-> FALSE, matches |-> acc, rest |-> toks]
         ELSE IF toks[2].v # Quote THEN [ok |-> FALSE, matches |-> acc, rest |-> toks]
         ELSE LET str == ParseString(SubSeq(toks, 3, Len(toks)), <<>>) IN
              IF ~str.ok THEN [ok |-> FALSE, matches |-> acc, rest |-> toks]
              ELSE ParseMatches(str.rest,
                     Append(acc, [kind |-> toks[1].v.kind, name |-> toks[1].v.name,
                                  text |-> str.chars,
                                  start |-> toks[1].v.start, end |-> toks[1].v.end]))

\* one JSON record: [ok, files (the record, or nothing), rest]
ParseRecord(toks) ==
    IF toks = <<>> \/ toks[1].t # "file" THEN [ok |-> FALSE, files |-> <<>>, rest |-> toks]
    ELSE LET ms == ParseMatches(Tail(toks), <<>>) IN
         IF ~ms.ok THEN [ok |-> FALSE, files |-> <<>>, rest |-> toks]
         ELSE [ok |-> TRUE,
               files |-> <<[file |-> toks[1].v.file, file_type |-> toks[1].v.file_type,
                            matches |-> ms.matches]>>,
               rest |-> ms.rest]

\* the lines of a text: split at every line feed; the last is what follows the
\* last line feed
RECURSIVE SplitLines(_, _)
SplitLines(toks, line) ==
    IF toks = <<>> THEN <<line>>
    ELSE IF toks[1].t = "ch"
         THEN IF toks[1].v = NL THEN <<line>> \o SplitLines(Tail(toks), <<>>)
              ELSE SplitLines(Tail(toks), Append(line, toks[1]))
         ELSE SplitLines(Tail(toks), Append(line, toks[1]))

\* the records of a json-lines text, line by line: [ok, files]
ParseLines(text) ==
    LET all == SplitLines(text, <<>>)
        lines == SubSeq(all, 1, Len(all) - 1)
        recs == [i \in 1..Len(lines) |-> ParseRecord(lines[i])]
    IN [ok |-> /\ all[Len(all)] = <<>>
               /\ \A i \in 1..Len(lines) : recs[i].ok /\ recs[i].rest = <<>>,
        files |-> Flatten([i \in 1..Len(lines) |-> recs[i].files])]

\* the elements of a JSON array text: [ok, files]
RECURSIVE ParseElements(_, _)
ParseElements(toks, acc) ==
    LET rec == ParseRecord(toks) IN
    IF ~rec.ok \/ rec.rest = <<>> THEN [ok |-> FALSE, files |-> acc]
    ELSE IF rec.rest[1].t # "punct" THEN [ok |-> FALSE, files |-> acc]
    ELSE IF rec.rest[1].v = "]"
         THEN [ok |-> Len(rec.rest) = 1, files |-> acc \o rec.files]
    ELSE IF rec.rest[1].v = ","
         THEN ParseElements(Tail(rec.rest), acc \o rec.files)
    ELSE [ok |-> FALSE, files |-> acc]

ParseArray(text) ==
    IF Len(text) < 2 \/ text[1].t # "punct" THEN [ok |-> FALSE, files |-> <<>>]
    ELSE IF text[1].v # "[" THEN [ok |-> FALSE, files |-> <<>>]
    ELSE IF text[2].t = "punct" THEN [ok |-> Len(text) = 2 /\ text[2].v = "]", files |-> <<>>]
    ELSE ParseElements(Tail(text), <<>>)

\* everything written to out, in order
Written == Flatten([k \in 1..Len(out) |-> out[k].text])

\* C11: the json-lines output holds one record per line, and its records, read
\* line by line, are the elements of the array the json format writes for the
\* same ExtractedFile records, in the same order
C11_JsonLinesEqualsJsonArray ==
    (pc = "done" /\ result.ok /\ argv.mode = "query") =>
        LET sfs == [i \in 1..Len(extracted_files) |-> SerializeFile(extracted_files[i])]
            jsonl == Flatten([i \in 1..Len(sfs) |-> writeln(to_json_string(sfs[i]))])
        IN
        /\ invocation.format = "json-lines" =>
             /\ Len(SplitLines(Written, <<>>)) = Len(extracted_files) + 1
             /\ ParseLines(Written).ok
             /\ ParseArray(to_writer(sfs)).ok
             /\ ParseLines(Written).files = ParseArray(to_writer(sfs)).files
        /\ invocation.format = "json" =>
             /\ ParseArray(Written).ok
             /\ ParseLines(jsonl).ok
             /\ ParseArray(Written).files = ParseLines(jsonl).files
             /\ Len(ParseArray(Written).files) = Len(extracted_files)

C11_Witness ==
    /\ pc = "done"
    /\ invocation.format = "json-lines"
    /\ Len(out) = 2
    /\ \E k \in 1..Len(out) : \E j \in 1..Len(out[k].value.matches) :
          NL \in Range(Chars(out[k].value.matches[j].text))

\* the permutations of 1..n
Perms(n) == {f \in [1..n -> 1..n] : \A i, j \in 1..n : f[i] = f[j] => i = j}

\* C12: with --sort the records are in their natural order (file, then file
\* type, then matches) and records that compare equal keep their relative
\* order; without --sort they are in the order the map stage collected them
C12_SortStable ==
    (pc \in {"format", "done", "panicked"} /\ argv.mode = "query") =>
        LET src == CollectResults(results).files
            n == Len(src)
        IN IF invocation.sort
           THEN /\ Len(extracted_files) = n
                /\ \A i, j \in 1..n : i < j => CmpFile(extracted_files[i], extracted_files[j]) <= 0
                /\ \E perm \in Perms(n) :
                     /\ \A k \in 1..n : extracted_files[k] = src[perm[k]]
                     /\ \A i, j \in 1..n :
                          (i < j /\ CmpFile(extracted_files[i], extracted_files[j]) = 0)
                              => perm[i] < perm[j]
           ELSE extracted_files = src

\* a sorted run that had to move a record, and one with two equal records
C12_Witness ==
    /\ pc = "done"
    /\ invocation.sort
    /\ Len(extracted_files) = 2
    /\ extracted_files # CollectResults(results).files

C12_WitnessEqual ==
    /\ pc = "done"
    /\ invocation.sort
    /\ Len(extracted_files) = 2
    /\ CmpFile(extracted_files[1], extracted_files[2]) = 0

\* the text a -q pair should add to its language's composite: the query, with
\* "@query" after it when the query alone declares no capture
RECURSIVE ExpectedComposite(_, _)
ExpectedComposite(lang, pairs) ==
    IF pairs = <<>> THEN <<>>
    ELSE LET pair == Head(pairs)
             alone == parse_query(lang, pair.query)
         IN (IF from_str(pair.lang).lang # lang THEN <<>>
             ELSE IF alone.capture_names = <<>> THEN pair.query \o <<CapTok(CapQuery)>>
             ELSE pair.query) \o ExpectedComposite(lang, Tail(pairs))

\* C13: a -q query that alone declares no capture gets "@query" appended
\* before it is merged, so it contributes a capture named query to the
\* composite of its language; a query with a capture is merged unchanged
C13_SyntheticCapture ==
    (pc = "build" /\ extractors = <<>>) =>
        \A j \in 1..Len(argv.pairs) :
            LET lang == from_str(argv.pairs[j].lang).lang
                alone == parse_query(lang, argv.pairs[j].query)
                composite == parse_query(lang, query_strings[lang])
            IN /\ query_strings[lang] = ExpectedComposite(lang, argv.pairs)
               /\ alone.capture_names = <<>> =>
                    /\ composite.ok
                    /\ CapQuery \in Range(composite.capture_names)

\* the part of C13 that the code keeps: the text that is merged
SyntheticCaptureText ==
    (pc = "build" /\ extractors = <<>>) =>
        \A l \in DOMAIN query_strings : query_strings[l] = ExpectedComposite(l, argv.pairs)

\* C14: when the extraction of an entry fails, every other entry of the list
\* is still processed before the run observes the error
C14_CollectThenFail ==
    (pc = "failed" /\ \E i \in DOMAIN results : results[i].kind = "err") =>
        \A i \in DOMAIN work : work[i] = "done"

\* C14 as amended: the error is observed only when no worker is in the middle
\* of an entry; an entry is then either finished, with its result, or was never
\* started
C14_NoExtractionInterrupted ==
    (pc = "failed" /\ work # <<>>) =>
        /\ \E i \in DOMAIN results : results[i].kind = "err"
        /\ \A w \in DOMAIN worker : worker[w].item = 0
        /\ \A i \in DOMAIN work :
             /\ work[i] \in {"done", "todo"}
             /\ work[i] = "todo" <=> results[i].kind = "todo"

C14_Witness ==
    /\ pc = "failed"
    /\ \E i, j \in DOMAIN results :
         /\ results[i].kind = "err"
         /\ work[j] = "todo"
         /\ extractor_for(invocation.extractors, items[j]) # <<>>

\* how often e is in a sequence
Count(seq, e) == Cardinality({i \in DOMAIN seq : seq[i] = e})

\* the entries a walker thread has sent
Sent == {e \in env.tree : e.ok /\ e \notin pending}

\* C15: under every interleaving of the walker threads, each entry that was
\* sent is in the list find_files returns exactly once, and the drain ends only
\* after every thread has finished and every sender is dropped
C15_WalkerFanIn ==
    /\ walker # <<>> =>
         \A e \in env.tree :
            Count(channel, e) + Count(items, e) = IF e \in Sent THEN 1 ELSE 0
    /\ items # <<>> => ~root_sender /\ \A t \in DOMAIN walker : walker[t] = "done"
    /\ WalkReturned =>
         /\ channel = <<>>
         /\ Senders = 0
         /\ \A t \in DOMAIN walker : walker[t] = "done"
         /\ \A e \in Sent : Count(items, e) = 1
         /\ Len(items) = Cardinality(Sent)

C15_Witness ==
    /\ WalkReturned
    /\ env.threads = 2
    /\ Len(items) = 2
    /\ items[1].path = "b.rs" /\ items[2].path = "a.rs"

\* C16: find_files always terminates: once the walker threads have finished,
\* their senders and the root sender are dropped and the drain ends; a send
\* never waits for room in the channel
C16_FindFilesTerminates ==
    /\ (pc = "find_files") ~> (pc \in {"extract", "failed"})
    /\ [](pc = "walking" => \A t \in DOMAIN walker :
              (walker[t] = "running" /\ ~quit /\ pending # {}) => ENABLED WalkerVisit(t))

C16_Witness ==
    /\ pc = "extract"
    /\ env.threads = 2
    /\ Len(items) = 2
    /\ Senders = 0

\* C17: no parser is used by two workers at the same time: each worker makes
\* its own, keeps it for all the files it processes, and sets it to the
\* language of the chosen Extractor before every parse
C17_ParserOwnership ==
    \A w \in DOMAIN worker :
        /\ worker[w].pid \in {0, ParserNew(w)}
        /\ worker[w].pid = 0 <=> worker[w].parser = "none"
        /\ worker[w].item # 0 => worker[w].pid = ParserNew(w)
        /\ \A v \in DOMAIN worker :
             (v # w /\ worker[w].item # 0 /\ worker[v].item # 0)
                 => worker[w].pid # worker[v].pid
        /\ worker[w].parsed # <<>> =>
             /\ worker[w].parsed[1].with = worker[w].parsed[1].file
             /\ worker[w].parser = worker[w].parsed[1].with

\* a worker that parsed a Python file takes a Rust file with the same parser
C17_Witness ==
    \E w \in DOMAIN worker :
        /\ worker[w].item # 0
        /\ worker[w].parser = "Python"
        /\ items[worker[w].item].ftype = "Rust"
        /\ items[worker[w].item].readable

\* the languages the -q pairs name
NamedLanguages == {from_str(argv.pairs[j].lang).lang : j \in 1..Len(argv.pairs)}

\* C18: when Invocation::extractors succeeds it returns exactly one Extractor
\* for every language the -q pairs name, and the composite text of a language
\* is the concatenation of its query texts (as merged) in order of arrival
C18_OneExtractorPerLanguage ==
    /\ (pc = "build" /\ extractors = <<>>) =>
         /\ DOMAIN query_strings = NamedLanguages
         /\ \A l \in NamedLanguages : query_strings[l] = ExpectedComposite(l, argv.pairs)
    /\ (pc \in {"opts", "dispatch"} /\ argv.mode = "query") =>
         /\ Len(extractors) = Cardinality(NamedLanguages)
         /\ {extractors[i].language : i \in 1..Len(extractors)} = NamedLanguages
         /\ \A i \in 1..Len(extractors) :
              extractors[i] = ExtractorNew(extractors[i].language,
                                  parse_query(extractors[i].language,
                                      ExpectedComposite(extractors[i].language, argv.pairs)))
    /\ pc = "dispatch" /\ argv.mode = "query" => invocation.extractors = extractors

C18_Witness ==
    /\ pc = "dispatch"
    /\ argv.pairs = <<Pair("rust", QBy), Pair("rust", QAx)>>
    /\ Len(invocation.extractors) = 1
    /\ invocation.extractors[1].captures = <<CapY, CapX>>

\* two languages, two Extractors, in either order of the HashMap
C18_WitnessTwo ==
    /\ pc = "dispatch"
    /\ argv.pairs = <<Pair("py", QAx), Pair("rust", QBy)>>
    /\ Len(invocation.extractors) = 2
    /\ invocation.extractors[1].language = "Rust"

\* C19: in the pretty format the line range of every match is computed
\* without unsigned underflow: (start.row + 1) - before_lines is not below 0,
\* and the start of a range is not past its end, also for a match that ends
\* in column 0
C19_LineRangeNoUnderflow ==
    /\ pc # "panicked"
    /\ \A k \in 1..Len(screen) : \A i \in 1..Len(screen[k].highlight) :
         /\ screen[k].highlight[i].s - invocation.before_lines >= 0
         /\ screen[k].line_ranges[i].lower = screen[k].highlight[i].s - invocation.before_lines
         /\ screen[k].highlight[i].s <= screen[k].highlight[i].e
         /\ screen[k].line_ranges[i].lower <= screen[k].line_ranges[i].upper

\* the entries of a set in one fixed order
RECURSIVE Enumerate(_)
Enumerate(S) ==
    IF S = {} THEN <<>>
    ELSE LET e == CHOOSE x \in S : TRUE IN <<e>> \o Enumerate(S \ {e})

\* what the command line extracts from an entry, whatever the run does
ExpectedResult(e) ==
    IF ~e.ok \/ e.ftype \notin NamedLanguages THEN SkipResult
    ELSE extract_from_file(
             ExtractorNew(e.ftype, parse_query(e.ftype, CompositeOf(e.ftype, argv.pairs))), e)

\* the records of a tree, in the fixed order of its entries
ExpectedFiles(tree) ==
    LET es == Enumerate(tree) IN Flatten([i \in 1..Len(es) |-> ExpectedResult(es[i]).file])

\* C20: for a fixed tree and fixed queries, with --sort the final sequence of
\* ExtractedFile records is the same under every interleaving of the walker
\* threads and the extraction workers; without --sort the records are the
\* same and only their order may differ
C20_DeterministicUnderSort ==
    (pc \in {"format", "done", "panicked"} /\ argv.mode = "query") =>
        LET expected == ExpectedFiles(env.tree) IN
        /\ Len(extracted_files) = Len(expected)
        /\ \A r \in Range(expected) \cup Range(extracted_files) :
              Count(extracted_files, r) = Count(expected, r)
        /\ invocation.sort => extracted_files = SortFiles(expected)

\* a sorted run in which the entries arrived in the other order
C20_Witness ==
    /\ pc = "done"
    /\ invocation.sort
    /\ env.threads = 2
    /\ Len(items) = 2
    /\ Len(extracted_files) = 2
    /\ extracted_files[1].file[1] = items[2].path
    /\ extracted_files[2].file[1] = items[1].path
    /\ items[1].path # items[2].path

====
